---- MODULE Spec2Model ----
(***************************************************************************)
(* pgespresso: concurrent ("non-exclusive") online backups for PostgreSQL  *)
(* 9.2 - 9.5.  The extension is three SQL-callable C functions,            *)
(* pgespresso_start_backup, pgespresso_stop_backup and                     *)
(* pgespresso_abort_backup (src/pgespresso.c).  Each one checks            *)
(* superuser() and then calls the server's do_pg_start_backup,             *)
(* do_pg_stop_backup or do_pg_abort_backup.                                *)
(*                                                                         *)
(* The extension itself keeps no state.  The state it acts on is the       *)
(* server's: the shared counters XLogCtl->Insert.nonExclusiveBackups and   *)
(* XLogCtl->Insert.forcePageWrites, the control file, and the per-backend  *)
(* global ThisTimeLineID.  What the three callees do to that state is      *)
(* taken from the server's access/transam/xlog.c (assertions compiled out, *)
(* as in a production build); the places where the extension calls them    *)
(* are the lines of src/pgespresso.c named with each definition.           *)
(*                                                                         *)
(* The server has no table of sessions.  handles and closedBy are history  *)
(* variables: the label texts start has returned, and for each the call    *)
(* that released it, if any.  They are read only to draw the text a client *)
(* passes to stop; no effect on the program's state depends on them.       *)
(***************************************************************************)
EXTENDS Integers, Sequences, FiniteSets, TLC

(* ---------------------------- bounds ----------------------------------- *)
NBackends == 2      \* client backends calling the functions
MaxCalls  == 3      \* calls entered in one behaviour
MaxLSN    == 4      \* largest WAL position
MaxClock  == 1      \* largest value of the wall clock (seconds)
MaxTLI    == 2      \* largest timeline id replayed
NLabels   == 1      \* distinct backup ids a client may pass
SegSize   == 2      \* WAL positions per segment (XLogSegSize, scaled)
XLogSegmentsPerXLogId == 2  \* segments per "log id" (scaled)
XLogRecPtrBits == 8 \* width of a WAL position (uint64, scaled)

Backends == 1..NBackends
Labels   == 1..NLabels

(* Text data are records of the fields a backup label has.  Garbage is a  *)
(* text that does not scan as a label; NoText and NoFile stand for "no     *)
(* value returned".                                                        *)
Garbage  == [start |-> 0, tli |-> 0, from |-> "garbage", time |-> 0, label |-> 0]
NoText   == [start |-> 0, tli |-> 0, from |-> "none", time |-> 0, label |-> 0]
NoFile   == <<0, 0, 0>>

VARIABLES
    pc,                   \* backend -> position inside the call it executes
    call,                 \* backend -> arguments and locals of that call
    result,               \* what the step just taken returned, if it ended a call
    PG93,                 \* the build: PG_VERSION_NUM >= 90300
    ThisTimeLineID,       \* backend -> the backend's global ThisTimeLineID
    LocalRecoveryInProgress, \* backend -> its cached view of recovery
    nonExclusiveBackups,  \* XLogCtl->Insert.nonExclusiveBackups
    forcePageWrites,      \* XLogCtl->Insert.forcePageWrites
    SharedRecoveryInProgress, \* XLogCtl->SharedRecoveryInProgress
    replayTLI,            \* timeline of the last replayed record
    serverTLI,            \* XLogCtl->ThisTimeLineID (0 while in recovery)
    walPos,               \* insert position (primary) / replay position
    redo,                 \* ControlFile->checkPointCopy.redo
    clock,                \* time(NULL) when it was last read
    archivedUpTo,         \* segments below this number are archived
    ncalls,               \* calls entered so far
    handles,              \* history: label texts returned by start, in order
    closedBy              \* history: index -> "open", or "stop"/"abort" that
                          \* first released it

vars == <<pc, call, result, PG93, ThisTimeLineID, LocalRecoveryInProgress,
          nonExclusiveBackups, forcePageWrites, SharedRecoveryInProgress,
          replayTLI, serverTLI, walPos, redo, clock, archivedUpTo, ncalls,
          handles, closedBy>>

localVars   == <<ThisTimeLineID, LocalRecoveryInProgress>>
engineVars  == <<nonExclusiveBackups, forcePageWrites>>
walVars     == <<walPos, redo>>
envVars     == <<PG93, SharedRecoveryInProgress, replayTLI, serverTLI, archivedUpTo>>
ghostVars   == <<handles, closedBy>>

NoCall   == [op |-> "none", su |-> FALSE, sid |-> 0, text |-> NoText, id |-> 0, fast |-> FALSE,
             inrec |-> FALSE, readtli |-> 0, stoppoint |-> 0, stoptli |-> 0,
             net |-> 0, calls |-> {}]
NoResult == [who |-> 0, op |-> "none", su |-> FALSE, status |-> "none", sid |-> 0,
             fast |-> FALSE, file |-> NoFile, readtli |-> 0, stoppoint |-> 0,
             stoptli |-> 0, net |-> 0, calls |-> {}]

(* ---------------------------- Init ------------------------------------- *)
Init ==
    /\ pc = [p \in Backends |-> "idle"]
    /\ call = [p \in Backends |-> NoCall]
    /\ result = NoResult
    /\ PG93 \in BOOLEAN
    /\ SharedRecoveryInProgress \in BOOLEAN
    /\ LocalRecoveryInProgress = [p \in Backends |-> SharedRecoveryInProgress]
    /\ replayTLI = 1
    /\ serverTLI = IF SharedRecoveryInProgress THEN 0 ELSE 1
    /\ ThisTimeLineID = [p \in Backends |-> serverTLI]
    /\ nonExclusiveBackups = 0
    /\ forcePageWrites = FALSE
    /\ walPos = 1
    /\ redo = 0
    /\ clock = 0
    /\ archivedUpTo = 0
    /\ ncalls = 0
    /\ handles = <<>>
    /\ closedBy = <<>>

(* --------------------------- history ----------------------------------- *)
\* The open sessions: the label texts start has returned that no stop or
\* abort has been called for since.
sessions == {s \in 1..Len(handles) : closedBy[s] = "open"}

\* closedBy after a stop or abort for session sid has released a backup.
Close(sid, op) ==
    IF sid \in sessions THEN [closedBy EXCEPT ![sid] = op] ELSE closedBy

(* ------------------- server helpers used by the calls ------------------ *)
\* RecoveryInProgress() as backend p sees it: once a backend has seen the end
\* of recovery it never looks at shared memory again.
RecoveryInProgress(p) == LocalRecoveryInProgress[p] /\ SharedRecoveryInProgress

\* The side effect of RecoveryInProgress(): the first call that sees recovery
\* over runs InitXLOGAccess(), which loads ThisTimeLineID from shared memory.
LocalAfterCheck(p) == [LocalRecoveryInProgress EXCEPT ![p] = RecoveryInProgress(p)]
TLIAfterCheck(p) ==
    IF LocalRecoveryInProgress[p] /\ ~SharedRecoveryInProgress
    THEN [ThisTimeLineID EXCEPT ![p] = serverTLI]
    ELSE ThisTimeLineID

\* The counter update shared by do_pg_stop_backup, do_pg_abort_backup and
\* pg_start_backup_callback: decrement, then clear forcePageWrites when the
\* counter is exactly zero.  Assert(nonExclusiveBackups > 0) compiles to
\* nothing, so the counter can go below zero.
BackupsAfterDecrement == nonExclusiveBackups - 1
ForcePageWritesAfterDecrement ==
    IF BackupsAfterDecrement = 0 THEN FALSE ELSE forcePageWrites

\* Variant: do_pg_start_backup keeps WALInsertLock until its checkpoint is
\* done.
HoldsWALInsertLock_through_checkpoint(q) == pc[q] = "start_checkpoint"

\* Backend q holds WALInsertLock between two steps.  The three callees take
\* the lock, change the counter and the flag, and release it before they do
\* anything else, all inside one step: between steps nobody holds it.
HoldsWALInsertLock(q) == FALSE

\* LWLockAcquire(WALInsertLock, LW_EXCLUSIVE) by backend p returns.
WALInsertLockFree(p) == \A q \in Backends \ {p} : ~HoldsWALInsertLock(q)

\* A call ends: the backend is idle again and result holds what the client
\* passed and got (file: the text stop returns) together with what the call
\* did on the way: the server calls it made, the replay timeline it read,
\* the stop point and timeline the server gave it, and net, the sum of the
\* changes it made to the counter.  Every other step leaves NoResult.
Finish(p, op, su, status, sid, file, calls) ==
    /\ pc' = [pc EXCEPT ![p] = "idle"]
    /\ call' = [call EXCEPT ![p] = NoCall]
    /\ result' = [who |-> p, op |-> op, su |-> su, status |-> status, sid |-> sid,
                  fast |-> call[p].fast, file |-> file,
                  readtli |-> call[p].readtli,
                  stoppoint |-> call[p].stoppoint, stoptli |-> call[p].stoptli,
                  net |-> call[p].net + (nonExclusiveBackups' - nonExclusiveBackups),
                  calls |-> call[p].calls \cup calls]

(* --------------------------- start ------------------------------------- *)
\* Variant: ThisTimeLineID is updated before the superuser() check.
pgespresso_start_backup_tli_first(p, su, id, fast) ==
    /\ pc[p] = "idle"
    /\ ncalls < MaxCalls
    /\ ncalls' = ncalls + 1
    /\ UNCHANGED <<engineVars, walVars, envVars, clock, ghostVars>>
    /\ LocalRecoveryInProgress' = LocalAfterCheck(p)
    /\ ThisTimeLineID' =
           IF RecoveryInProgress(p)
           THEN [ThisTimeLineID EXCEPT ![p] = replayTLI]
           ELSE TLIAfterCheck(p)
    /\ IF ~su
       THEN Finish(p, "start", su, "NotAuthorized", 0, NoFile, {})
       ELSE /\ call' = [call EXCEPT ![p] =
                   [NoCall EXCEPT !.op = "start", !.su = su, !.id = id, !.fast = fast,
                                  !.readtli = IF RecoveryInProgress(p) THEN replayTLI ELSE 0,
                                  !.calls = {"RecoveryInProgress"}]]
            /\ pc' = [pc EXCEPT ![p] = "start_register"]
            /\ result' = NoResult

\* Variant: ThisTimeLineID is set from the replay timeline only while it is
\* still 0, and kept from the earlier call otherwise.
pgespresso_start_backup_cached(p, su, id, fast) ==
    /\ pc[p] = "idle"
    /\ ncalls < MaxCalls
    /\ ncalls' = ncalls + 1
    /\ UNCHANGED <<engineVars, walVars, envVars, clock, ghostVars>>
    /\ IF ~su
       THEN /\ Finish(p, "start", su, "NotAuthorized", 0, NoFile, {})
            /\ UNCHANGED localVars
       ELSE /\ call' = [call EXCEPT ![p] =
                   [NoCall EXCEPT !.op = "start", !.su = su, !.id = id, !.fast = fast,
                        !.readtli = IF RecoveryInProgress(p) THEN replayTLI ELSE 0,
                        !.calls = IF RecoveryInProgress(p)
                                  THEN {"RecoveryInProgress", "GetXLogReplayRecPtr"}
                                  ELSE {"RecoveryInProgress"}]]
            /\ LocalRecoveryInProgress' = LocalAfterCheck(p)
            /\ ThisTimeLineID' =
                   IF RecoveryInProgress(p)
                   THEN IF ThisTimeLineID[p] = 0
                        THEN [ThisTimeLineID EXCEPT ![p] = replayTLI]
                        ELSE ThisTimeLineID
                   ELSE TLIAfterCheck(p)
            /\ pc' = [pc EXCEPT ![p] = "start_register"]
            /\ result' = NoResult

\* Entry of pgespresso_start_backup up to the call of do_pg_start_backup:
\* the superuser() check (su: its answer), then the update of
\* ThisTimeLineID in recovery.
pgespresso_start_backup(p, su, id, fast) ==
    /\ pc[p] = "idle"
    /\ ncalls < MaxCalls
    /\ ncalls' = ncalls + 1
    /\ UNCHANGED <<engineVars, walVars, envVars, clock, ghostVars>>
    /\ IF ~su
       THEN /\ Finish(p, "start", su, "NotAuthorized", 0, NoFile, {})
            /\ UNCHANGED localVars
       ELSE /\ call' = [call EXCEPT ![p] =
                   [NoCall EXCEPT !.op = "start", !.su = su, !.id = id, !.fast = fast,
                        !.readtli = IF RecoveryInProgress(p) THEN replayTLI ELSE 0,
                        !.calls = IF RecoveryInProgress(p)
                                  THEN {"RecoveryInProgress", "GetXLogReplayRecPtr"}
                                  ELSE {"RecoveryInProgress"}]]
            /\ LocalRecoveryInProgress' = LocalAfterCheck(p)
            /\ ThisTimeLineID' =
                   IF RecoveryInProgress(p)
                   THEN [ThisTimeLineID EXCEPT ![p] = call'[p].readtli]
                   ELSE TLIAfterCheck(p)
            /\ pc' = [pc EXCEPT ![p] = "start_register"]
            /\ result' = NoResult

\* Variant: the call passes no labelfile, which asks for the exclusive
\* backup: it is refused while another backup is in progress.
do_pg_start_backup_exclusive(p) ==
    /\ pc[p] = "start_register"
    /\ LocalRecoveryInProgress' = LocalAfterCheck(p)
    /\ ThisTimeLineID' = TLIAfterCheck(p)
    /\ IF nonExclusiveBackups > 0
       THEN /\ UNCHANGED engineVars
            /\ Finish(p, "start", TRUE, "BackupInProgress", 0, NoFile,
                      {"do_pg_start_backup"})
       ELSE /\ call' = [call EXCEPT ![p].inrec = RecoveryInProgress(p),
                                    ![p].net = @ + 1,
                                    ![p].calls = @ \cup {"do_pg_start_backup"}]
            /\ nonExclusiveBackups' = nonExclusiveBackups + 1
            /\ forcePageWrites' = TRUE
            /\ pc' = [pc EXCEPT ![p] = "start_checkpoint"]
            /\ result' = NoResult
    /\ UNCHANGED <<walVars, envVars, clock, ncalls, ghostVars>>

\* do_pg_start_backup(backupidstr, fast, NULL, &labelfile), first part: a
\* non-NULL labelfile makes the backup non-exclusive, so it never conflicts
\* with a backup in progress; under WALInsertLock the server counts it and
\* forces full-page writes.
do_pg_start_backup(p) ==
    /\ pc[p] = "start_register"
    /\ WALInsertLockFree(p)
    /\ call' = [call EXCEPT ![p].inrec = RecoveryInProgress(p),
                            ![p].net = @ + 1,
                            ![p].calls = @ \cup {"do_pg_start_backup"}]
    /\ LocalRecoveryInProgress' = LocalAfterCheck(p)
    /\ ThisTimeLineID' = TLIAfterCheck(p)
    /\ nonExclusiveBackups' = nonExclusiveBackups + 1
    /\ forcePageWrites' = TRUE
    /\ pc' = [pc EXCEPT ![p] = "start_checkpoint"]
    /\ result' = NoResult
    /\ UNCHANGED <<walVars, envVars, clock, ncalls, ghostVars>>

\* Variant: the function returns the backup id it was given instead of the
\* label file.
LabelFile_idonly(startpoint, tli, inrec, now, id) ==
    [start |-> 0, tli |-> 0, from |-> "master", time |-> 0, label |-> id]

\* The text do_pg_start_backup builds: START WAL LOCATION with the name of
\* the WAL file of the start point (tli: the timeline in that name, the
\* backend's ThisTimeLineID), BACKUP FROM, START TIME (whole seconds) and
\* LABEL.
LabelFile(startpoint, tli, inrec, now, id) ==
    [start |-> startpoint,
     tli   |-> tli,
     from  |-> IF inrec THEN "standby" ELSE "master",
     time  |-> now,
     label |-> id]

\* Variant: the checkpoint is always requested as an immediate one.
CheckpointFlags_immediate(fast) ==
    {"CHECKPOINT_FORCE", "CHECKPOINT_WAIT", "CHECKPOINT_IMMEDIATE"}

\* The flags do_pg_start_backup passes to RequestCheckpoint for the fast
\* argument it was given.
CheckpointFlags(fast) ==
    {"CHECKPOINT_FORCE", "CHECKPOINT_WAIT"}
        \cup (IF fast THEN {"CHECKPOINT_IMMEDIATE"} ELSE {})

\* do_pg_start_backup, second part, and the return of the label text.
\* RequestCheckpoint(CHECKPOINT_FORCE | CHECKPOINT_WAIT | fast): on a primary
\* a new checkpoint whose redo pointer is the insert position; in recovery a
\* restartpoint, which moves only if a newer checkpoint record was replayed
\* (newer).  fail: the server raises an error inside the
\* PG_ENSURE_ERROR_CLEANUP block and pg_start_backup_callback takes the
\* backup out of the counter.  tick: a second has passed since the clock was
\* last read.
RequestCheckpoint(p, fail, newer, tick) ==
    /\ pc[p] = "start_checkpoint"
    /\ UNCHANGED <<localVars, envVars, ncalls>>
    /\ IF fail
       THEN /\ nonExclusiveBackups' = BackupsAfterDecrement
            /\ forcePageWrites' = ForcePageWritesAfterDecrement
            /\ Finish(p, "start", TRUE, "EngineFailure", 0, NoFile,
                      CheckpointFlags(call[p].fast) \cup {"pg_start_backup_callback"})
            /\ UNCHANGED <<walVars, clock, ghostVars>>
       ELSE /\ UNCHANGED engineVars
            /\ IF call[p].inrec
               THEN /\ redo' = IF newer THEN walPos ELSE redo
                    /\ UNCHANGED walPos
               ELSE /\ walPos < MaxLSN
                    /\ redo' = walPos
                    /\ walPos' = walPos + 1
            /\ clock + tick <= MaxClock
            /\ clock' = clock + tick
            /\ handles' = Append(handles,
                                 LabelFile(redo', ThisTimeLineID[p], call[p].inrec,
                                           clock', call[p].id))
            /\ closedBy' = Append(closedBy, "open")
            /\ Finish(p, "start", TRUE, "ok", Len(handles) + 1, NoFile,
                      CheckpointFlags(call[p].fast))

(* --------------------------- stop -------------------------------------- *)
\* What a client passes to stop: the text start returned for session sid,
\* or (sid = 0) a text that start never returned.
TextOf(sid) == IF sid = 0 THEN Garbage ELSE handles[sid]

\* Variant: stop asks the server to wait for the archive.
waitforarchive_true == TRUE

\* The "don't wait for archive" argument of do_pg_stop_backup.
waitforarchive == FALSE

\* pgespresso_stop_backup up to the first part of do_pg_stop_backup(
\* backupidstr, false, &endtli): after the superuser() check, and before it
\* looks at the label text, the server takes one backup out of the counter
\* under WALInsertLock and clears forcePageWrites at zero.
pgespresso_stop_backup(p, su, sid) ==
    /\ pc[p] = "idle"
    /\ ncalls < MaxCalls
    /\ ncalls' = ncalls + 1
    /\ IF ~su
       THEN /\ UNCHANGED <<localVars, engineVars, closedBy>>
            /\ Finish(p, "stop", su, "NotAuthorized", sid, NoFile, {})
       ELSE /\ call' = [call EXCEPT ![p] =
                   [NoCall EXCEPT !.op = "stop", !.su = su, !.sid = sid,
                                  !.text = TextOf(sid),
                                  !.inrec = RecoveryInProgress(p),
                                  !.net = -1,
                                  !.calls = {"do_pg_stop_backup"}]]
            /\ WALInsertLockFree(p)
            /\ LocalRecoveryInProgress' = LocalAfterCheck(p)
            /\ ThisTimeLineID' = TLIAfterCheck(p)
            /\ nonExclusiveBackups' = BackupsAfterDecrement
            /\ forcePageWrites' = ForcePageWritesAfterDecrement
            /\ closedBy' = Close(sid, "stop")
            /\ pc' = [pc EXCEPT ![p] = "stop_point"]
            /\ result' = NoResult
    /\ UNCHANGED <<walVars, envVars, clock, handles>>

\* sscanf(labelfile, "START WAL LOCATION: ...") and the BACKUP FROM line:
\* a text scans when it has the layout do_pg_start_backup writes.
Scans(text) == text.from \in {"master", "standby"}

\* do_pg_stop_backup, second part: scan the label text, then take the stop
\* point and its timeline.  In recovery that is the minimum recovery point;
\* otherwise the end of the XLOG_BACKUP_END record it inserts (XLogInsert
\* takes WALInsertLock for the insertion).
stop_point(p, fail) ==
    /\ pc[p] = "stop_point"
    /\ UNCHANGED <<localVars, engineVars, envVars, clock, ncalls, ghostVars, redo>>
    /\ IF ~Scans(call[p].text)
       THEN /\ UNCHANGED walPos
            /\ Finish(p, "stop", TRUE, "InvalidLabel", call[p].sid, NoFile, {})
       ELSE IF call[p].text.from = "standby" /\ ~call[p].inrec
       THEN /\ UNCHANGED walPos
            /\ Finish(p, "stop", TRUE, "PromotedDuringBackup", call[p].sid, NoFile, {})
       ELSE IF fail
       THEN /\ UNCHANGED walPos
            /\ Finish(p, "stop", TRUE, "EngineFailure", call[p].sid, NoFile, {})
       ELSE IF call[p].inrec
       THEN /\ call' = [call EXCEPT ![p].stoppoint = walPos,
                                    ![p].stoptli = replayTLI]
            /\ pc' = [pc EXCEPT ![p] = "stop_wait"]
            /\ UNCHANGED walPos
            /\ result' = NoResult
       ELSE /\ walPos < MaxLSN
            /\ WALInsertLockFree(p)
            /\ walPos' = walPos + 1
            /\ call' = [call EXCEPT ![p].stoppoint = walPos + 1,
                                    ![p].stoptli = ThisTimeLineID[p]]
            /\ pc' = [pc EXCEPT ![p] = "stop_wait"]
            /\ result' = NoResult

\* Variant: XLByteToSeg, the segment of the position itself.
XLByteToSeg(pos) == (pos % (2^XLogRecPtrBits)) \div SegSize

\* XLByteToPrevSeg: the segment of the byte before the position, in the
\* unsigned arithmetic of XLogRecPtr.
XLByteToPrevSeg(pos) == ((pos - 1) % (2^XLogRecPtrBits)) \div SegSize

\* XLogFileName: "%08X%08X%08X" of the timeline and the two halves of the
\* segment number; the three fields stand for the three hex groups.
XLogFileName(tli, segno) ==
    <<tli, segno \div XLogSegmentsPerXLogId, segno % XLogSegmentsPerXLogId>>

\* The wait loop at the end of do_pg_stop_backup: with waitforarchive the
\* server sleeps until the segment of the stop point is archived.  A backup
\* stopped in recovery returns before the loop.
ArchiveWaitOver(p) ==
    \/ ~waitforarchive
    \/ call[p].inrec
    \/ archivedUpTo > XLByteToPrevSeg(call[p].stoppoint)

\* Variant: the wrapper sets ThisTimeLineID in recovery on every build.
stop_return_always_updates(p) ==
    /\ pc[p] = "stop_wait"
    /\ ArchiveWaitOver(p)
    /\ UNCHANGED <<engineVars, walVars, envVars, clock, ncalls, ghostVars>>
    /\ LocalRecoveryInProgress' = LocalAfterCheck(p)
    /\ ThisTimeLineID' =
           IF RecoveryInProgress(p)
           THEN [ThisTimeLineID EXCEPT ![p] = replayTLI]
           ELSE TLIAfterCheck(p)
    /\ Finish(p, "stop", TRUE, "ok", call[p].sid,
              XLogFileName(IF PG93 THEN call[p].stoptli ELSE ThisTimeLineID'[p],
                           XLByteToPrevSeg(call[p].stoppoint)),
              {"RecoveryInProgress", "XLogFileName"})

\* Return of do_pg_stop_backup and the rest of pgespresso_stop_backup: before
\* 9.3 the wrapper sets ThisTimeLineID in recovery and names the file with it.
stop_return(p) ==
    /\ pc[p] = "stop_wait"
    /\ ArchiveWaitOver(p)
    /\ UNCHANGED <<engineVars, walVars, envVars, clock, ncalls, ghostVars>>
    /\ IF PG93
       THEN /\ UNCHANGED localVars
            /\ Finish(p, "stop", TRUE, "ok", call[p].sid,
                      XLogFileName(call[p].stoptli, XLByteToPrevSeg(call[p].stoppoint)),
                      {"XLogFileName"})
       ELSE /\ LocalRecoveryInProgress' = LocalAfterCheck(p)
            /\ ThisTimeLineID' =
                   IF RecoveryInProgress(p)
                   THEN [ThisTimeLineID EXCEPT ![p] = replayTLI]
                   ELSE TLIAfterCheck(p)
            /\ Finish(p, "stop", TRUE, "ok", call[p].sid,
                      XLogFileName(ThisTimeLineID'[p], XLByteToPrevSeg(call[p].stoppoint)),
                      {"RecoveryInProgress", "XLogFileName"})

(* --------------------------- abort ------------------------------------- *)
\* Variant: abort without the superuser() check.
pgespresso_abort_backup_nocheck(p, su, sid) ==
    /\ pc[p] = "idle"
    /\ ncalls < MaxCalls
    /\ ncalls' = ncalls + 1
    /\ nonExclusiveBackups' = BackupsAfterDecrement
    /\ forcePageWrites' = ForcePageWritesAfterDecrement
    /\ closedBy' = Close(sid, "abort")
    /\ Finish(p, "abort", su, "ok", sid, NoFile, {"do_pg_abort_backup"})
    /\ UNCHANGED <<localVars, walVars, envVars, clock, handles>>

\* Variant: abort resolves the timeline as stop does before 9.3.
pgespresso_abort_backup_resolves(p, su, sid) ==
    /\ pc[p] = "idle"
    /\ ncalls < MaxCalls
    /\ ncalls' = ncalls + 1
    /\ IF ~su
       THEN /\ UNCHANGED <<localVars, engineVars, closedBy>>
            /\ Finish(p, "abort", su, "NotAuthorized", sid, NoFile, {})
       ELSE /\ nonExclusiveBackups' = BackupsAfterDecrement
            /\ forcePageWrites' = ForcePageWritesAfterDecrement
            /\ closedBy' = Close(sid, "abort")
            /\ LocalRecoveryInProgress' = LocalAfterCheck(p)
            /\ ThisTimeLineID' =
                   IF RecoveryInProgress(p)
                   THEN [ThisTimeLineID EXCEPT ![p] = replayTLI]
                   ELSE TLIAfterCheck(p)
            /\ Finish(p, "abort", su, "ok", sid, NoFile,
                      {"do_pg_abort_backup", "RecoveryInProgress"})
    /\ UNCHANGED <<walVars, envVars, clock, handles>>

\* pgespresso_abort_backup: the superuser() check, then do_pg_abort_backup(),
\* which takes no argument: under WALInsertLock it decrements the counter
\* and clears forcePageWrites at zero.  sid is the session the client means
\* to abort (0: none); the function never reads its arguments.
pgespresso_abort_backup(p, su, sid) ==
    /\ pc[p] = "idle"
    /\ ncalls < MaxCalls
    /\ ncalls' = ncalls + 1
    /\ IF ~su
       THEN /\ UNCHANGED <<engineVars, closedBy>>
            /\ Finish(p, "abort", su, "NotAuthorized", sid, NoFile, {})
       ELSE /\ WALInsertLockFree(p)
            /\ nonExclusiveBackups' = BackupsAfterDecrement
            /\ forcePageWrites' = ForcePageWritesAfterDecrement
            /\ closedBy' = Close(sid, "abort")
            /\ Finish(p, "abort", su, "ok", sid, NoFile, {"do_pg_abort_backup"})
    /\ UNCHANGED <<localVars, walVars, envVars, clock, handles>>

(* ------------------------ the server around the calls ------------------ *)
\* The startup process replays the next WAL record; the record may be the
\* one that switches to the next timeline (switch).
Replay(switch) ==
    /\ SharedRecoveryInProgress
    /\ walPos < MaxLSN
    /\ walPos' = walPos + 1
    /\ IF switch
       THEN /\ replayTLI < MaxTLI
            /\ replayTLI' = replayTLI + 1
       ELSE UNCHANGED replayTLI
    /\ result' = NoResult
    /\ UNCHANGED <<pc, call, localVars, engineVars, redo, PG93,
                   SharedRecoveryInProgress, serverTLI, archivedUpTo, clock,
                   ncalls, ghostVars>>

\* The standby is promoted: recovery ends on a new timeline.
Promote ==
    /\ SharedRecoveryInProgress
    /\ SharedRecoveryInProgress' = FALSE
    /\ serverTLI' = replayTLI + 1
    /\ result' = NoResult
    /\ UNCHANGED <<pc, call, localVars, engineVars, walVars, PG93,
                   replayTLI, archivedUpTo, clock, ncalls, ghostVars>>

\* The archiver archives the next completed segment.  Only the wait loop of
\* do_pg_stop_backup reads how far it got, so it is left to run only while
\* a stop is at that loop.
Archive ==
    /\ \E p \in Backends : pc[p] = "stop_wait"
    /\ (archivedUpTo + 1) * SegSize <= walPos
    /\ archivedUpTo' = archivedUpTo + 1
    /\ result' = NoResult
    /\ UNCHANGED <<pc, call, localVars, engineVars, walVars, PG93,
                   SharedRecoveryInProgress, replayTLI, serverTLI, clock,
                   ncalls, ghostVars>>

(* --------------------------- specification ----------------------------- *)
Next ==
    \/ \E p \in Backends, su \in BOOLEAN, id \in Labels, fast \in BOOLEAN :
          pgespresso_start_backup(p, su, id, fast)
    \/ \E p \in Backends : do_pg_start_backup(p)
    \/ \E p \in Backends, fail \in BOOLEAN, newer \in BOOLEAN, tick \in 0..1 :
          RequestCheckpoint(p, fail, newer, tick)
    \/ \E p \in Backends, su \in BOOLEAN, sid \in 0..Len(handles) :
          pgespresso_stop_backup(p, su, sid)
    \/ \E p \in Backends, fail \in BOOLEAN : stop_point(p, fail)
    \/ \E p \in Backends : stop_return(p)
    \/ \E p \in Backends, su \in BOOLEAN, sid \in 0..Len(handles) :
          pgespresso_abort_backup(p, su, sid)
    \/ \E switch \in BOOLEAN : Replay(switch)
    \/ Promote
    \/ Archive

Spec == Init /\ [][Next]_vars

(* ============================ claims =================================== *)
Quiescent == \A p \in Backends : pc[p] = "idle"

\* A call by backend p is entered in this step.
Entered(p) ==
    /\ pc[p] = "idle"
    /\ ncalls' = ncalls + 1
    /\ \/ call'[p].op # "none"
       \/ result'.who = p

\* The operation, superuser() answer and target of the call entered by p.
EnteredOp(p)  == IF call'[p].op # "none" THEN call'[p].op  ELSE result'.op
EnteredSu(p)  == IF call'[p].op # "none" THEN call'[p].su  ELSE result'.su
EnteredSid(p) == IF call'[p].op # "none" THEN call'[p].sid ELSE result'.sid

\* C1: while a session is open (start has returned its label and no stop or
\* abort has been called for it), full-page writes are forced, whatever
\* other clients call in between.
C1_EnforcedWhileOpen == sessions # {} => forcePageWrites

\* C2: whenever no call is in flight, the counter equals the number of open
\* sessions, is not negative, and full-page writes are forced exactly when
\* it is not zero.
C2_RefcountIsSessions ==
    Quiescent =>
        /\ nonExclusiveBackups = Cardinality(sessions)
        /\ nonExclusiveBackups >= 0
        /\ forcePageWrites <=> (nonExclusiveBackups # 0)

\* C3: an authorized start is never refused or held up because other
\* backups are in progress: the only ways a start ends are success, the
\* authorization error and a server failure; the step that counts the
\* backup in can be taken whatever the counter says and whatever calls the
\* other backends are in; and while sessions are open an idle backend can
\* enter a start, a stop or an abort.
C3_SessionsOverlap ==
    /\ result.op = "start" =>
          result.status \in {"ok", "NotAuthorized", "EngineFailure"}
    /\ \A p \in Backends : pc[p] = "start_register" => ENABLED do_pg_start_backup(p)
    /\ \A p \in Backends :
          (pc[p] = "idle" /\ ncalls < MaxCalls /\ sessions # {}) =>
              /\ ENABLED pgespresso_start_backup(p, TRUE, 1, TRUE)
              /\ ENABLED pgespresso_stop_backup(p, TRUE, 0)
              /\ ENABLED pgespresso_abort_backup(p, TRUE, 0)

C3_Witness ==
    /\ result.op = "start"
    /\ result.status = "ok"
    /\ Cardinality(sessions) >= 2
    /\ nonExclusiveBackups >= 2

\* C4: an authorized stop whose argument identifies no open session fails
\* with UnknownSession and leaves the sessions, the counter and the
\* enforcement flag as they were.
C4_UnknownSessionNoEffect ==
    [][\A p \in Backends :
         (Entered(p) /\ EnteredOp(p) = "stop" /\ EnteredSu(p)
            /\ EnteredSid(p) \notin sessions)
         => /\ result'.status = "UnknownSession"
            /\ UNCHANGED <<nonExclusiveBackups, forcePageWrites, closedBy>>]_vars

\* C5: of one stop and one abort for the same session only the first takes a
\* backup out of the counter: a stop for a session an abort has released, or
\* an abort for a session a stop has released, leaves the counter alone.
C5_ReleasedOnce ==
    [][\A p \in Backends :
         (Entered(p) /\ EnteredSu(p) /\ EnteredSid(p) \in 1..Len(handles)
            /\ \/ EnteredOp(p) = "stop"  /\ closedBy[EnteredSid(p)] = "abort"
               \/ EnteredOp(p) = "abort" /\ closedBy[EnteredSid(p)] = "stop")
         => UNCHANGED nonExclusiveBackups]_vars

C7_DeniedHasNoEffect ==
    [][\A p \in Backends :
         (Entered(p) /\ ~EnteredSu(p))
         => /\ result'.who = p
            /\ result'.status = "NotAuthorized"
            /\ result'.calls = {}
            /\ pc'[p] = "idle"
            /\ UNCHANGED <<nonExclusiveBackups, forcePageWrites, handles, closedBy,
                           ThisTimeLineID, LocalRecoveryInProgress, walPos, redo>>]_vars

C7_Witness ==
    /\ result.status = "NotAuthorized"
    /\ result.op = "start"
    /\ SharedRecoveryInProgress
    /\ replayTLI # ThisTimeLineID[result.who]
    /\ nonExclusiveBackups > 0

\* C8 as stated: every abort call, by any caller, returns normally.
C8_AbortNeverFails == result.op = "abort" => result.status = "ok"

\* C8 amended: an abort returns normally exactly when its caller is
\* authorized, whatever the counter and the enforcement flag are; the only
\* error an abort raises is the authorization error.
C8_AuthorizedAbortNeverFails ==
    result.op = "abort" =>
        /\ result.status \in {"ok", "NotAuthorized"}
        /\ (result.status = "ok") <=> result.su

C8_Witness ==
    /\ result.op = "abort"
    /\ result.status = "ok"
    /\ nonExclusiveBackups < 0
    /\ \E p \in Backends : pc[p] # "idle"

C11_SegmentOfStopPoint ==
    (result.op = "stop" /\ result.status = "ok") =>
        LET p   == result.stoppoint
            seg == IF p % SegSize = 0 THEN (p \div SegSize) - 1 ELSE p \div SegSize
        IN  /\ p >= 1
            /\ seg * SegSize < p
            /\ p <= (seg + 1) * SegSize
            /\ result.file = <<result.file[1], seg \div XLogSegmentsPerXLogId,
                                seg % XLogSegmentsPerXLogId>>
            /\ \A q \in 1..MaxLSN :
                  (q - 1) \div SegSize = seg =>
                      XLogFileName(result.file[1], XLByteToPrevSeg(q)) = result.file

C11_Witness ==
    /\ result.op = "stop"
    /\ result.status = "ok"
    /\ result.stoppoint % SegSize = 0
    /\ result.stoppoint >= SegSize * XLogSegmentsPerXLogId

\* Backups the server has counted in and not yet counted out by a call for
\* them: the open sessions and the starts past their registration.
Registered ==
    Cardinality(sessions) + Cardinality({p \in Backends : pc[p] = "start_checkpoint"})

\* C12: in every state, also in the middle of calls, the counter equals the
\* number of registered backups and full-page writes are forced exactly
\* when the counter is above zero.
C12_UpdatesObservedTogether ==
    /\ nonExclusiveBackups = Registered
    /\ forcePageWrites <=> (nonExclusiveBackups > 0)

ReturnedLabel == handles[result.sid]

\* C14 as stated: the timeline on the label of a start that found the server
\* in recovery is the replay timeline that call read; the label of any other
\* start carries the server's own timeline.
C14_LabelTimelineReadInCall ==
    (result.op = "start" /\ result.status = "ok") =>
        IF "GetXLogReplayRecPtr" \in result.calls
        THEN ReturnedLabel.tli = result.readtli
        ELSE ReturnedLabel.tli = serverTLI

\* C14 amended: when do_pg_start_backup finds the server in recovery (the
\* label says BACKUP FROM standby), the timeline on the label is the replay
\* timeline read by that same call, not one left from an earlier call; when
\* it does not, also because the standby was promoted after the call read
\* the replay timeline, the label carries the server's own timeline.
C14_LabelTimeline ==
    (result.op = "start" /\ result.status = "ok") =>
        IF ReturnedLabel.from = "standby"
        THEN /\ "GetXLogReplayRecPtr" \in result.calls
             /\ ReturnedLabel.tli = result.readtli
             /\ ReturnedLabel.tli # 0
        ELSE ReturnedLabel.tli = serverTLI

C14_Witness ==
    /\ result.op = "start"
    /\ result.status = "ok"
    /\ ReturnedLabel.from = "standby"
    /\ ReturnedLabel.tli = 2
    /\ ThisTimeLineID[result.who] = 2
    /\ \E s \in 1..Len(handles) : handles[s].tli = 1

\* C15: the timeline in the file name stop returns is the timeline the
\* server resolved together with the stop point of that call.
C15_StopTimelineOfStopPoint ==
    (result.op = "stop" /\ result.status = "ok") =>
        result.file[1] = result.stoptli

\* C16: an authorized abort entered while a session is open takes exactly
\* one backup out of the counter and clears the enforcement flag exactly
\* when the counter comes to zero, as the entry of an authorized stop does;
\* it takes no WAL position, resolves no timeline, computes no file name,
\* makes no server call but do_pg_abort_backup and returns no value.
C16_AbortDoesTheMinimum ==
    [][\A p \in Backends :
         /\ (Entered(p) /\ EnteredOp(p) = "abort" /\ EnteredSu(p) /\ sessions # {})
            => /\ nonExclusiveBackups' = nonExclusiveBackups - 1
               /\ forcePageWrites' =
                      (IF nonExclusiveBackups' = 0 THEN FALSE ELSE forcePageWrites)
               /\ result'.who = p
               /\ result'.status = "ok"
               /\ result'.file = NoFile
               /\ result'.stoppoint = 0
               /\ result'.stoptli = 0
               /\ result'.readtli = 0
               /\ result'.calls = {"do_pg_abort_backup"}
               /\ UNCHANGED <<walPos, redo, ThisTimeLineID, LocalRecoveryInProgress,
                              handles>>
         /\ (Entered(p) /\ EnteredOp(p) = "stop" /\ EnteredSu(p) /\ sessions # {})
            => /\ nonExclusiveBackups' = nonExclusiveBackups - 1
               /\ forcePageWrites' =
                      (IF nonExclusiveBackups' = 0 THEN FALSE ELSE forcePageWrites)]_vars

C16_Witness ==
    /\ result.op = "abort"
    /\ result.status = "ok"
    /\ result.sid # 0
    /\ closedBy[result.sid] = "abort"
    /\ nonExclusiveBackups = 0
    /\ ~forcePageWrites
    /\ SharedRecoveryInProgress
    /\ ThisTimeLineID[result.who] # replayTLI

\* C17: the checkpoint do_pg_start_backup requests is an immediate one
\* exactly when the caller passed fast = true; the start point on the label
\* is read after that checkpoint: it is the redo pointer the control file
\* holds once the request is done, and outside recovery the redo pointer of
\* the checkpoint the request made.
C17_FastReachesCheckpoint ==
    /\ (result.op = "start" /\ result.status \in {"ok", "EngineFailure"}) =>
          (("CHECKPOINT_IMMEDIATE" \in result.calls) <=> result.fast)
    /\ (result.op = "start" /\ result.status = "ok") =>
          /\ ReturnedLabel.start = redo
          /\ ReturnedLabel.from = "master" => ReturnedLabel.start = walPos - 1

C17_Witness ==
    /\ result.op = "start"
    /\ result.status = "ok"
    /\ result.fast
    /\ ReturnedLabel.from = "master"
    /\ ReturnedLabel.start >= 2

\* C18: a start or stop that ends with a server failure returns nothing and
\* has, taken as a whole, changed the counter by nothing.
C18_FailureLeavesRegistry ==
    result.status = "EngineFailure" =>
        /\ result.file = NoFile
        /\ result.net = 0

\* C19 as stated: ThisTimeLineID of a backend changes only at the entry of a
\* start made in recovery, to the replay timeline; nothing else writes it.
C19_TimelineWrittenOnlyByStart ==
    [][\A p \in Backends :
         ThisTimeLineID'[p] # ThisTimeLineID[p] =>
             /\ Entered(p)
             /\ EnteredOp(p) = "start"
             /\ RecoveryInProgress(p)
             /\ ThisTimeLineID'[p] = replayTLI]_vars

\* The step is one of a start or stop call by backend p.
StepOfStartOrStop(p) ==
    \/ Entered(p) /\ EnteredOp(p) \in {"start", "stop"}
    \/ pc[p] \in {"start_register", "start_checkpoint", "stop_point", "stop_wait"}
          /\ (pc'[p] # pc[p] \/ result'.who = p)

\* C19 amended: an authorized start made in recovery leaves ThisTimeLineID
\* equal to the replay timeline it read; an abort never writes it, and on a
\* build for 9.3 or later a stop made in recovery never writes it.  Besides
\* the start, it is written only by the stop of a build before 9.3 made in
\* recovery (to the replay timeline), and by the first RecoveryInProgress()
\* of a start or stop that finds recovery over (to the server's timeline).
C19_TimelineWrites ==
    [][\A p \in Backends :
         /\ (Entered(p) /\ EnteredOp(p) = "start" /\ EnteredSu(p) /\ RecoveryInProgress(p))
            => ThisTimeLineID'[p] = replayTLI
         /\ (Entered(p) /\ EnteredOp(p) = "abort")
            => UNCHANGED <<ThisTimeLineID, LocalRecoveryInProgress>>
         /\ (StepOfStartOrStop(p) /\ PG93 /\ RecoveryInProgress(p)
               /\ ~(Entered(p) /\ EnteredOp(p) = "start"))
            => UNCHANGED ThisTimeLineID
         /\ ThisTimeLineID'[p] # ThisTimeLineID[p] =>
              \/ /\ Entered(p)
                 /\ EnteredOp(p) = "start"
                 /\ EnteredSu(p)
                 /\ RecoveryInProgress(p)
                 /\ ThisTimeLineID'[p] = replayTLI
              \/ /\ ~PG93
                 /\ pc[p] = "stop_wait"
                 /\ RecoveryInProgress(p)
                 /\ ThisTimeLineID'[p] = replayTLI
              \/ /\ StepOfStartOrStop(p)
                 /\ LocalRecoveryInProgress[p]
                 /\ ~SharedRecoveryInProgress
                 /\ ~LocalRecoveryInProgress'[p]
                 /\ ThisTimeLineID'[p] = serverTLI]_vars

C19_Witness ==
    /\ PG93
    /\ result.op = "stop"
    /\ result.status = "ok"
    /\ SharedRecoveryInProgress
    /\ replayTLI = 2
    /\ ThisTimeLineID[result.who] = 1

====
